---- MODULE Spec2Model ----
(***************************************************************************)
(* A model of gv.js (the pattern enumerator, the progress store and the    *)
(* search loop of runGoogleVoice) and of the browser session helper it     *)
(* requires.  Strings are sequences of one-character strings, so that      *)
(* lengths, positions and the JSON text of the progress file are explicit. *)
(***************************************************************************)
EXTENDS Integers, Sequences, FiniteSets, TLC

VARIABLES
    SEARCH_PATTERN,         \* gv.js:18, the template (a string)
    EXCLUDE_DIGIT_4_MODE,   \* gv.js:21, 0 = digit 4 excluded, 1 = allowed
    pc,                     \* position of the process
    validNumbers,           \* what getAllValidNumbers returned (Unset before)
    file,                   \* the progress file: NoFile or FileOf(its text)
    remainingNumbers,       \* runGoogleVoice: let remainingNumbers
    searchedNumbers,        \* runGoogleVoice: let searchedNumbers (a JS Set,
                            \* kept as the sequence of its insertion order)
    currentNumber,          \* runGoogleVoice: const currentNumber
    noNumbersAvailable,     \* runGoogleVoice: const noNumbersAvailable
    effects,                \* kinds of outside effects the process has had
    screenshots,            \* candidates of the screenshot files written, in order
    logFile,                \* gv_screenshots/search_results.log, one entry per line
    exitCode,               \* process.exit code, NoExit while running
    loadErr,                \* error caught by the last loadSearchedNumbers
    completed,              \* candidates whose attempt has been classified
    attempts,               \* attempts begun in this behaviour (bounded)
    runs,                   \* invocations of the process so far (bounded)
    initialRemaining,       \* this run: remainingNumbers as first loaded
    attempted,              \* this run: the candidates picked, in order
    recordBefore,           \* this run: the record in the file when the attempt began
    persisted,              \* candidates written by some completed save
    positives,              \* candidates of the attempts classified found
    foundSaved,             \* candidates saved by an attempt classified found
    usedNames,              \* names of the progress files opened
    clock,                  \* Date.now(), in milliseconds
    lastRequestTime,        \* go.js: let lastRequestTime
    callers,                \* each caller of sendRequest: where it is, its timer
    dispatched,             \* the times at which request(options) was called
    step,                   \* where connectToBrowser is
    running,                \* whether the profile's browser instance runs
    ws,                     \* go.js: let ws
    reopened,               \* connectToBrowser is past its /browser/open
    requested,              \* the endpoints requested by this call, in order
    wasRunning,             \* the instance was running when the call began
    connects,               \* calls of connectToBrowser so far (bounded)
    called,                 \* openBrowser or closeBrowser, whichever was called
    answered,               \* the daemon's answer to its /browser/open or /browser/close
    outcome,                \* how the call's promise settled
    messages,               \* what the call wrote to the console, in order
    calls                   \* calls of openBrowser and closeBrowser so far (bounded)

vars == <<SEARCH_PATTERN, EXCLUDE_DIGIT_4_MODE, pc, validNumbers, file,
          remainingNumbers, searchedNumbers, currentNumber, noNumbersAvailable,
          effects, screenshots, logFile, exitCode, loadErr, completed,
          attempts, runs, initialRemaining, attempted, recordBefore,
          persisted, positives, foundSaved, usedNames,
          clock, lastRequestTime, callers, dispatched,
          step, running, ws, reopened, requested, wasRunning, connects,
          called, answered, outcome, messages, calls>>

----------------------------------------------------------------------------
(* Bounds of the model *)

\* longest template drawn for the enumerator
MaxLen == 3
\* attempts (loop iterations begun) explored in one behaviour
MaxAttempts == 2
\* invocations of the process in one behaviour
MaxRuns == 2
\* candidates an earlier run may have left unsearched in the initial file
MaxLeft == 2
\* a cut-off write is explored within this many characters of either end
MaxCut == 1
\* concurrent callers of sendRequest
NumCallers == 2
\* requests dispatched in one behaviour
MaxCalls == 3
\* the clock advances by MinDelay \div TickParts at a time
TickParts == 3
\* advances of the clock in one behaviour
MaxTicks == 6
\* calls of connectToBrowser in one behaviour
MaxConnects == 2
\* calls of openBrowser and closeBrowser in one behaviour
MaxProfileCalls == 2
\* Math.random() is drawn from {0/RandDen, ..., (RandDen-1)/RandDen}
RandDen == 2

(* Program constants *)

\* async function ensureRequestDelay(minDelay = 600)
MinDelay == 600

\* for (let digit = 0; digit <= 9; digit++)
MaxDigit == 9
\* the digit skipped under EXCLUDE_DIGIT_4_MODE === 0
ExcludedDigit == 4
\* 'a'.charCodeAt(0), the code of the letter tried at index 0
CodeOfA == 97

----------------------------------------------------------------------------
(* Values *)

\* the progress file: absent, or present with its text
NoFile == [exists |-> FALSE, text |-> <<>>]
FileOf(text) == [exists |-> TRUE, text |-> text]
\* a variable not assigned yet; no candidate and no candidate list is empty
Unset == <<>>
NoExit == "none"

Markers == {"a", "b", "c", "d"}
DigitChars == <<"0", "1", "2", "3", "4", "5", "6", "7", "8", "9">>
\* String.fromCharCode for the codes 97..100
FromCharCode(code) == <<"a", "b", "c", "d">>[code - 96]
UndefinedText == <<"u", "n", "d", "e", "f", "i", "n", "e", "d">>

\* characters a drawn template is made of: the four markers, two literal
\* digits and one character that is neither digit nor marker
TemplateChars == {"a", "b", "c", "d", "3", "4", "e"}

Range(s) == {s[i] : i \in 1..Len(s)}

RECURSIVE SeqsUpTo(_, _)
SeqsUpTo(S, n) ==
    IF n = 0 THEN {<<>>}
    ELSE LET shorter == SeqsUpTo(S, n - 1)
         IN  shorter \cup {Append(s, c) : s \in shorter, c \in S}

RECURSIVE Flatten(_)
Flatten(ss) == IF ss = <<>> THEN <<>> ELSE Head(ss) \o Flatten(Tail(ss))

NoDuplicates(s) == \A i, j \in 1..Len(s) : i # j => s[i] # s[j]

----------------------------------------------------------------------------
(* Pattern enumerator: getAllValidNumbers / generateCombinations *)

\* char >= 'a' && char <= 'd'
IsMarker(char) == char \in Markers

\* gv.js:29-34
UsedLetters(pattern) == {char \in Range(pattern) : IsMarker(char)}

\* what result += assignments[char] appends: the digit's text, and the text
\* "undefined" for a letter the object has no property for
AssignedText(assignments, char) ==
    IF char \in DOMAIN assignments
    THEN <<DigitChars[assignments[char] + 1]>>
    ELSE UndefinedText

\* gv.js:46-53
Materialize(pattern, assignments) ==
    Flatten([i \in 1..Len(pattern) |->
                IF IsMarker(pattern[i])
                THEN AssignedText(assignments, pattern[i])
                ELSE <<pattern[i]>>])

\* gv.js:69 and 73, the digits the loop does not skip
DigitAllowed(mode, digit, usedDigits) ==
    /\ ~(mode = 0 /\ digit = ExcludedDigit)
    /\ digit \notin usedDigits

\* gv.js:45, all letters are taken to be assigned
AllAssigned(index, usedLetters) == index >= Cardinality(usedLetters)

\* gv.js:43-86, the results pushed by one call, in order
RECURSIVE generateCombinations(_, _, _, _, _, _)
generateCombinations(pattern, mode, usedLetters, assignments, index, usedDigits) ==
    IF AllAssigned(index, usedLetters)
    THEN <<Materialize(pattern, assignments)>>
    ELSE LET letter == FromCharCode(CodeOfA + index)
         IN  IF letter \notin usedLetters
             THEN generateCombinations(pattern, mode, usedLetters, assignments,
                                       index + 1, usedDigits)
             ELSE Flatten([d \in 1..(MaxDigit + 1) |->
                     LET digit == d - 1
                     IN  IF DigitAllowed(mode, digit, usedDigits)
                         THEN generateCombinations(pattern, mode, usedLetters,
                                  [l \in DOMAIN assignments \cup {letter} |->
                                      IF l = letter THEN digit ELSE assignments[l]],
                                  index + 1, usedDigits \cup {digit})
                         ELSE <<>>])

\* gv.js:24-40
getAllValidNumbers(pattern, mode) ==
    generateCombinations(pattern, mode, UsedLetters(pattern),
                         <<>>, 0, {})

----------------------------------------------------------------------------
(* The control API client: go.js (src/unnamed/part_000) *)

CallerIds == 1..NumCallers

throttle == <<clock, lastRequestTime, callers, dispatched>>
session == <<step, running, ws, reopened, requested, wasRunning, connects>>
profile == <<called, answered, outcome, messages, calls>>
control == <<throttle, session, profile>>

\* no websocket address: null or undefined
NoWs == "none"
\* the address of the running instance
InstanceWs == "ws"

\* the step of the clock
TickMs == MinDelay \div TickParts

\* go.js:30, the module as loaded: Date.now() is far beyond the initial
\* lastRequestTime of 0, no request under way
ModuleLoaded ==
    /\ clock = MinDelay
    /\ lastRequestTime = 0
    /\ callers = [c \in CallerIds |-> [at |-> "idle", wake |-> 0]]
    /\ dispatched = <<>>
    /\ step = "idle"
    /\ ws = NoWs
    /\ reopened = FALSE
    /\ requested = <<>>
    /\ wasRunning = FALSE
    /\ connects = 0
    /\ called = "none"
    /\ answered = "none"
    /\ outcome = "none"
    /\ messages = <<>>
    /\ calls = 0

\* no browser instance runs
ControlLoaded ==
    /\ ModuleLoaded
    /\ running = FALSE

----------------------------------------------------------------------------
(* The enumerator alone, on drawn templates: SpecEnum *)

\* longer templates: the one the script ships with (gv.js:18), the two of
\* its comment (gv.js:15-17), all four markers, and one whose first marker
\* is not the first letter
LongTemplates ==
    {<<"a", "b", "c", "3", "3", "3", "3">>,
     <<"a", "b", "a", "b", "8", "8", "8">>,
     <<"a", "a", "a", "a", "b", "b", "b">>,
     <<"a", "b", "c", "d">>,
     <<"d", "c", "b", "a", "4">>,
     <<"c", "4", "a", "a", "a", "a", "a", "a", "a", "a">>}

Templates == (SeqsUpTo(TemplateChars, MaxLen) \ {<<>>}) \cup LongTemplates

Idle ==
    /\ file = NoFile
    /\ remainingNumbers = <<>>
    /\ searchedNumbers = <<>>
    /\ currentNumber = Unset
    /\ noNumbersAvailable = FALSE
    /\ effects = {}
    /\ screenshots = <<>>
    /\ logFile = <<>>
    /\ exitCode = NoExit
    /\ loadErr = "none"
    /\ completed = {}
    /\ attempts = 0
    /\ runs = 0
    /\ initialRemaining = <<>>
    /\ attempted = <<>>
    /\ recordBefore = <<>>
    /\ persisted = {}
    /\ positives = <<>>
    /\ foundSaved = {}
    /\ usedNames = {}

InitEnum ==
    /\ SEARCH_PATTERN \in Templates
    /\ EXCLUDE_DIGIT_4_MODE \in {0, 1}
    /\ pc = "config"
    /\ validNumbers = Unset
    /\ Idle
    /\ ControlLoaded

Enumerate ==
    /\ pc = "config"
    /\ validNumbers' = getAllValidNumbers(SEARCH_PATTERN, EXCLUDE_DIGIT_4_MODE)
    /\ pc' = "enumerated"
    /\ UNCHANGED <<SEARCH_PATTERN, EXCLUDE_DIGIT_4_MODE, file, remainingNumbers,
                   searchedNumbers, currentNumber, noNumbersAvailable, effects,
                   screenshots, logFile, exitCode, loadErr, completed,
                   attempts, runs, initialRemaining, attempted, recordBefore,
                   persisted, positives, foundSaved, usedNames, control>>

NextEnum == Enumerate

SpecEnum == InitEnum /\ [][NextEnum]_vars

----------------------------------------------------------------------------
(* Progress store: the JSON text written and read by gv.js:102-118 *)

Quote == "\""
Backslash == "\\"

\* JSON.stringify of one string: quoted, with quote and backslash escaped
StringifyString(str) ==
    <<Quote>>
    \o Flatten([i \in 1..Len(str) |->
                   IF str[i] \in {Quote, Backslash}
                   THEN <<Backslash, str[i]>>
                   ELSE <<str[i]>>])
    \o <<Quote>>

\* JSON.stringify of an array of strings: [ "..." , "..." ]
JSONStringify(array) ==
    <<"[">>
    \o Flatten([i \in 1..Len(array) |->
                   IF i = 1 THEN StringifyString(array[i])
                   ELSE <<",">> \o StringifyString(array[i])])
    \o <<"]">>

SyntaxError == [ok |-> FALSE, value |-> <<>>, next |-> 0]

\* the characters of a JSON string from position i, up to its closing quote
RECURSIVE ReadChars(_, _, _)
ReadChars(text, i, acc) ==
    IF i > Len(text) THEN SyntaxError
    ELSE IF text[i] = Quote THEN [ok |-> TRUE, value |-> acc, next |-> i + 1]
    ELSE IF text[i] = Backslash
         THEN IF i + 1 <= Len(text) /\ text[i + 1] \in {Quote, Backslash}
              THEN ReadChars(text, i + 2, Append(acc, text[i + 1]))
              ELSE SyntaxError
    ELSE ReadChars(text, i + 1, Append(acc, text[i]))

ParseString(text, i) ==
    IF i > Len(text) \/ text[i] # Quote THEN SyntaxError
    ELSE ReadChars(text, i + 1, <<>>)

\* the elements of a JSON array from position i, up to the end of the text
RECURSIVE ParseItems(_, _, _)
ParseItems(text, i, acc) ==
    LET item == ParseString(text, i)
    IN  IF ~item.ok \/ item.next > Len(text) THEN SyntaxError
        ELSE IF text[item.next] = ","
             THEN ParseItems(text, item.next + 1, Append(acc, item.value))
        ELSE IF text[item.next] = "]" /\ item.next = Len(text)
             THEN [ok |-> TRUE, value |-> Append(acc, item.value), next |-> item.next + 1]
        ELSE SyntaxError

\* JSON.parse on the texts the progress file can hold: an array of strings
\* parses to its elements, every other text (a cut-off record) throws
JSONParse(text) ==
    IF Len(text) < 2 \/ text[1] # "[" THEN SyntaxError
    ELSE IF text[2] = "]"
         THEN IF Len(text) = 2 THEN [ok |-> TRUE, value |-> <<>>, next |-> 3]
              ELSE SyntaxError
    ELSE ParseItems(text, 2, <<>>)

\* Set.prototype.has
SetHas(set, element) == element \in Range(set)

\* Set.prototype.add: insertion order, no second copy
SetAdd(set, element) == IF SetHas(set, element) THEN set ELSE Append(set, element)

\* new Set(array)
RECURSIVE NewSet(_)
NewSet(array) ==
    IF array = <<>> THEN <<>>
    ELSE SetAdd(NewSet(SubSeq(array, 1, Len(array) - 1)), array[Len(array)])

\* gv.js:103 and 115: EXCLUDE_DIGIT_4_MODE === 0 ? '_no4' : '_with4'
Exclude4Suffix(mode) ==
    IF mode = 0 THEN <<"_", "n", "o", "4">> ELSE <<"_", "w", "i", "t", "h", "4">>

NamePrefix == <<"g", "v", "_", "s", "e", "a", "r", "c", "h", "e", "d", "_">>
NameExtension == <<".", "j", "s", "o", "n">>

\* gv.js:104, `gv_searched_${SEARCH_PATTERN}${exclude4Suffix}.json`
LoadFileName(pattern, mode) ==
    NamePrefix \o pattern \o Exclude4Suffix(mode) \o NameExtension

\* the name built without the suffix of the exclusion mode
SaveFileNameNoSuffix(pattern, mode) ==
    NamePrefix \o pattern \o NameExtension

\* gv.js:116, `gv_searched_${SEARCH_PATTERN}${exclude4Suffix}.json`
SaveFileName(pattern, mode) ==
    NamePrefix \o pattern \o Exclude4Suffix(mode) \o NameExtension

\* gv.js:108-110, the catch clause: whatever was thrown, the result is new Set()
CaughtLoad(error) == [result |-> <<>>, err |-> error]

\* gv.js:102-111; ioError: fs.readFile fails on a file that exists
loadSearchedNumbers(stored, ioError) ==
    IF ~stored.exists THEN CaughtLoad("ENOENT")
    ELSE IF ioError THEN CaughtLoad("EIO")
    ELSE LET parsed == JSONParse(stored.text)
         IN  IF parsed.ok
             THEN [result |-> NewSet(parsed.value), err |-> "none"]
             ELSE CaughtLoad("SyntaxError")

\* the record written without its newest element
saveSearchedNumbersStale(searchedSet) ==
    JSONStringify(SubSeq(searchedSet, 1, Len(searchedSet) - 1))

\* gv.js:114-118, the text handed to fs.writeFile
saveSearchedNumbers(searchedSet) == JSONStringify(searchedSet)

\* the filter left out: every element is kept
FilterKeepsAll(array, searched) == array

\* Array.prototype.filter with num => !searched.has(num)
RECURSIVE FilterUnsearched(_, _)
FilterUnsearched(array, searched) ==
    IF array = <<>> THEN <<>>
    ELSE IF SetHas(searched, Head(array))
         THEN FilterUnsearched(Tail(array), searched)
         ELSE <<Head(array)>> \o FilterUnsearched(Tail(array), searched)

\* the filter with its test inverted: num => searched.has(num)
loadRemainingNumbersInverted(pattern, mode, searched) ==
    LET allValid == getAllValidNumbers(pattern, mode)
    IN  SelectSeq(allValid, LAMBDA num : SetHas(searched, num))

\* gv.js:121-125, given what its call of loadSearchedNumbers returned
loadRemainingNumbers(pattern, mode, searched) ==
    FilterUnsearched(getAllValidNumbers(pattern, mode), searched)

\* gv.js:89-91 with Math.random() = r / RandDen
getRandomElement(array, r) == array[((r * Len(array)) \div RandDen) + 1]

\* array.indexOf(element), 0 for -1
RECURSIVE IndexOf(_, _, _)
IndexOf(array, element, i) ==
    IF i > Len(array) THEN 0
    ELSE IF array[i] = element THEN i
    ELSE IndexOf(array, element, i + 1)

\* the array left as it is
removeElementKeepsAll(array, element) ==
    array

\* gv.js:94-99
removeElement(array, element) ==
    LET index == IndexOf(array, element, 1)
    IN  IF index # 0
        THEN SubSeq(array, 1, index - 1) \o SubSeq(array, index + 1, Len(array))
        ELSE array

----------------------------------------------------------------------------
(* The process: runGoogleVoice, gv.js:147-248, over several invocations *)

\* templates the process is run with: one marker, no marker, a character
\* that is neither digit nor marker, and a marker that is not the first letter
DriverPatterns == {<<"a", "3">>, <<"3", "4">>, <<"e", "3">>, <<"b", "3">>}

\* the progress file left by earlier runs: none, or the record of a run that
\* searched all but at most MaxLeft candidates
InitialFiles(universe) ==
    {NoFile} \cup
    {FileOf(saveSearchedNumbers(SubSeq(universe, 1, n))) :
        n \in {m \in 0..Len(universe) : m >= Len(universe) - MaxLeft}}

RunningPcs == {"start", "goto", "load_remaining", "load_searched", "loop",
               "search", "screenshot", "log", "mark", "write"}

config == <<SEARCH_PATTERN, EXCLUDE_DIGIT_4_MODE>>
memory == <<validNumbers, remainingNumbers, searchedNumbers, currentNumber,
            noNumbersAvailable, loadErr>>
artifacts == <<screenshots, logFile>>
counters == <<attempts, runs>>
\* what is remembered of this run, and of all runs, to state the claims
thisRun == <<initialRemaining, attempted, recordBefore>>
allRuns == <<persisted, positives, foundSaved, usedNames>>

\* a fresh process: nothing loaded yet
FreshMemory ==
    /\ validNumbers' = Unset
    /\ remainingNumbers' = <<>>
    /\ searchedNumbers' = <<>>
    /\ currentNumber' = Unset
    /\ noNumbersAvailable' = FALSE
    /\ loadErr' = "none"
    /\ initialRemaining' = <<>>
    /\ attempted' = <<>>
    /\ recordBefore' = <<>>

Init ==
    /\ SEARCH_PATTERN \in DriverPatterns
    /\ EXCLUDE_DIGIT_4_MODE \in {0, 1}
    /\ file \in InitialFiles(getAllValidNumbers(SEARCH_PATTERN, EXCLUDE_DIGIT_4_MODE))
    /\ completed = Range(loadSearchedNumbers(file, FALSE).result)
    /\ persisted = Range(loadSearchedNumbers(file, FALSE).result)
    /\ pc = "start"
    /\ validNumbers = Unset
    /\ remainingNumbers = <<>>
    /\ searchedNumbers = <<>>
    /\ currentNumber = Unset
    /\ noNumbersAvailable = FALSE
    /\ effects = {}
    /\ screenshots = <<>>
    /\ logFile = <<>>
    /\ exitCode = NoExit
    /\ loadErr = "none"
    /\ attempts = 0
    /\ runs = 1
    /\ initialRemaining = <<>>
    /\ attempted = <<>>
    /\ recordBefore = <<>>
    /\ positives = <<>>
    /\ foundSaved = {}
    /\ usedNames = {}
    /\ ControlLoaded

\* process.exit(code)
Exit(code) ==
    /\ pc' = "exited"
    /\ exitCode' = code

\* gv.js:153, connectToBrowser resolves
Connect ==
    /\ pc = "start"
    /\ effects' = effects \cup {"connect"}
    /\ pc' = "goto"
    /\ UNCHANGED <<config, control, memory, file, artifacts, exitCode, completed, counters,
                   thisRun, allRuns>>

\* gv.js:153, connectToBrowser rejects: 228-231 rethrows, 245-248 exits
ConnectFails ==
    /\ pc = "start"
    /\ Exit("1")
    /\ UNCHANGED <<config, control, memory, file, effects, artifacts, completed, counters,
                   thisRun, allRuns>>

\* gv.js:157-159, page.goto and the wait
Navigate ==
    /\ pc = "goto"
    /\ effects' = effects \cup {"goto"}
    /\ pc' = "load_remaining"
    /\ UNCHANGED <<config, control, memory, file, artifacts, exitCode, completed, counters,
                   thisRun, allRuns>>

\* gv.js:157, page.goto rejects
NavigateFails ==
    /\ pc = "goto"
    /\ Exit("1")
    /\ UNCHANGED <<config, control, memory, file, effects, artifacts, completed, counters,
                   thisRun, allRuns>>

\* whether fs.readFile may fail on the file as it is (it exists)
ReadErrors == IF file.exists THEN BOOLEAN ELSE {FALSE}

\* gv.js:162, let remainingNumbers = await loadRemainingNumbers()
LoadRemaining ==
    /\ pc = "load_remaining"
    /\ \E ioError \in ReadErrors :
          LET loaded == loadSearchedNumbers(file, ioError)
              remaining == loadRemainingNumbers(SEARCH_PATTERN,
                                                EXCLUDE_DIGIT_4_MODE, loaded.result)
          IN  /\ validNumbers' = getAllValidNumbers(SEARCH_PATTERN, EXCLUDE_DIGIT_4_MODE)
              /\ remainingNumbers' = remaining
              /\ initialRemaining' = remaining
              /\ loadErr' = loaded.err
    /\ usedNames' = usedNames \cup {LoadFileName(SEARCH_PATTERN, EXCLUDE_DIGIT_4_MODE)}
    /\ pc' = "load_searched"
    /\ UNCHANGED <<config, control, searchedNumbers, currentNumber, noNumbersAvailable, file,
                   effects, artifacts, exitCode, completed, counters, attempted,
                   recordBefore, persisted, positives, foundSaved>>

\* gv.js:163, let searchedNumbers = await loadSearchedNumbers()
LoadSearched ==
    /\ pc = "load_searched"
    /\ \E ioError \in ReadErrors :
          LET loaded == loadSearchedNumbers(file, ioError)
          IN  /\ searchedNumbers' = loaded.result
              /\ loadErr' = loaded.err
    /\ usedNames' = usedNames \cup {LoadFileName(SEARCH_PATTERN, EXCLUDE_DIGIT_4_MODE)}
    /\ pc' = "loop"
    /\ UNCHANGED <<config, control, validNumbers, remainingNumbers, currentNumber,
                   noNumbersAvailable, file, effects, artifacts, exitCode,
                   completed, counters, thisRun, persisted, positives, foundSaved>>

\* gv.js:168 false, 226-227
LoopDone ==
    /\ pc = "loop"
    /\ Len(remainingNumbers) = 0
    /\ Exit("0")
    /\ UNCHANGED <<config, control, memory, file, effects, artifacts, completed, counters,
                   thisRun, allRuns>>

\* gv.js:168 true, 170-172
Pick ==
    /\ pc = "loop"
    /\ Len(remainingNumbers) > 0
    /\ attempts < MaxAttempts
    /\ \E r \in 0..(RandDen - 1) :
          /\ currentNumber' = getRandomElement(remainingNumbers, r)
          /\ attempted' = Append(attempted, getRandomElement(remainingNumbers, r))
    /\ recordBefore' = loadSearchedNumbers(file, FALSE).result
    /\ attempts' = attempts + 1
    /\ pc' = "search"
    /\ UNCHANGED <<config, control, validNumbers, remainingNumbers, searchedNumbers,
                   noNumbersAvailable, loadErr, file, effects, artifacts, exitCode,
                   completed, runs, initialRemaining, allRuns>>

\* the branch of gv.js:193 inverted: a result not found is the one logged
SearchLogsNotFound ==
    /\ pc = "search"
    /\ effects' = effects \cup {"search"}
    /\ \E none \in BOOLEAN :
          /\ noNumbersAvailable' = none
          /\ pc' = IF none THEN "screenshot" ELSE "mark"
          /\ positives' = IF none THEN positives ELSE Append(positives, currentNumber)
    /\ UNCHANGED <<config, control, validNumbers, remainingNumbers, searchedNumbers,
                   currentNumber, loadErr, file, artifacts, exitCode, completed,
                   counters, thisRun, persisted, foundSaved, usedNames>>

\* gv.js:176-191: the term is typed, the page is asked for the marker text
Search ==
    /\ pc = "search"
    /\ effects' = effects \cup {"search"}
    /\ \E none \in BOOLEAN :
          /\ noNumbersAvailable' = none
          /\ pc' = IF none THEN "mark" ELSE "screenshot"
          /\ positives' = IF none THEN positives ELSE Append(positives, currentNumber)
    /\ UNCHANGED <<config, control, validNumbers, remainingNumbers, searchedNumbers,
                   currentNumber, loadErr, file, artifacts, exitCode, completed,
                   counters, thisRun, persisted, foundSaved, usedNames>>

\* gv.js:200-205
Screenshot ==
    /\ pc = "screenshot"
    /\ screenshots' = Append(screenshots, currentNumber)
    /\ pc' = "log"
    /\ UNCHANGED <<config, control, memory, file, effects, logFile, exitCode, completed,
                   counters, thisRun, allRuns>>

\* the line is not written
AppendLogNoLine ==
    /\ pc = "log"
    /\ logFile' = logFile
    /\ pc' = "mark"
    /\ UNCHANGED <<config, control, memory, file, effects, screenshots, exitCode, completed,
                   counters, thisRun, allRuns>>

\* gv.js:208-209
AppendLog ==
    /\ pc = "log"
    /\ logFile' = Append(logFile, currentNumber)
    /\ pc' = "mark"
    /\ UNCHANGED <<config, control, memory, file, effects, screenshots, exitCode, completed,
                   counters, thisRun, allRuns>>

\* gv.js:213-214 and 117: the candidate is added, fs.writeFile opens the file
\* for writing, which creates it or cuts it to length 0
MarkSearched ==
    /\ pc = "mark"
    /\ searchedNumbers' = SetAdd(searchedNumbers, currentNumber)
    /\ completed' = completed \cup {currentNumber}
    /\ file' = FileOf(<<>>)
    /\ usedNames' = usedNames \cup {SaveFileName(SEARCH_PATTERN, EXCLUDE_DIGIT_4_MODE)}
    /\ effects' = effects \cup {"write"}
    /\ pc' = "write"
    /\ UNCHANGED <<config, control, validNumbers, remainingNumbers, currentNumber,
                   noNumbersAvailable, loadErr, artifacts, exitCode, counters,
                   thisRun, persisted, positives, foundSaved>>

\* gv.js:117 the text is written and the call resolves, then 217
WriteData ==
    /\ pc = "write"
    /\ file' = FileOf(saveSearchedNumbers(searchedNumbers))
    /\ persisted' = persisted \cup Range(searchedNumbers)
    /\ foundSaved' = IF noNumbersAvailable THEN foundSaved
                                           ELSE foundSaved \cup {currentNumber}
    /\ remainingNumbers' = removeElement(remainingNumbers, currentNumber)
    /\ pc' = "loop"
    /\ UNCHANGED <<config, control, validNumbers, searchedNumbers, currentNumber,
                   noNumbersAvailable, loadErr, effects, artifacts, exitCode,
                   completed, counters, thisRun, positives, usedNames>>

\* the texts a cut-off write of data can leave in the file: a proper prefix,
\* taken here within MaxCut characters of either end
Prefixes(data) ==
    {FileOf(SubSeq(data, 1, n)) :
        n \in {m \in 0..(Len(data) - 1) : m <= MaxCut \/ m >= Len(data) - MaxCut}}

\* gv.js:219-223: a step of the attempt throws
StepFails ==
    /\ pc \in {"search", "screenshot", "log", "mark"}
    /\ Exit("1")
    /\ UNCHANGED <<config, control, memory, file, effects, artifacts, completed, counters,
                   thisRun, allRuns>>

\* gv.js:219-223: fs.writeFile rejects after the file was opened
WriteFails ==
    /\ pc = "write"
    /\ file' \in Prefixes(saveSearchedNumbers(searchedNumbers))
    /\ Exit("1")
    /\ UNCHANGED <<config, control, memory, effects, artifacts, completed, counters,
                   thisRun, allRuns>>

\* the process is killed, or the machine stops; a write under way is cut off
Crash ==
    /\ pc \in RunningPcs
    /\ IF pc = "write"
       THEN \/ /\ file' \in Prefixes(saveSearchedNumbers(searchedNumbers))
               /\ UNCHANGED <<persisted, foundSaved>>
            \/ /\ file' = FileOf(saveSearchedNumbers(searchedNumbers))
               /\ persisted' = persisted \cup Range(searchedNumbers)
               /\ foundSaved' = IF noNumbersAvailable THEN foundSaved
                                                      ELSE foundSaved \cup {currentNumber}
       ELSE /\ file' = file
            /\ UNCHANGED <<persisted, foundSaved>>
    /\ FreshMemory
    /\ pc' = "crashed"
    /\ UNCHANGED <<config, control, effects, artifacts, exitCode, completed, counters,
                   positives, usedNames>>

\* gv.js:235-248, the script is invoked again
Restart ==
    /\ pc \in {"exited", "crashed"}
    /\ runs < MaxRuns
    /\ runs' = runs + 1
    /\ FreshMemory
    /\ pc' = "start"
    /\ exitCode' = NoExit
    /\ UNCHANGED <<config, control, file, effects, artifacts, completed, attempts, allRuns>>

Next ==
    \/ Connect
    \/ ConnectFails
    \/ Navigate
    \/ NavigateFails
    \/ LoadRemaining
    \/ LoadSearched
    \/ LoopDone
    \/ Pick
    \/ Search
    \/ Screenshot
    \/ AppendLog
    \/ MarkSearched
    \/ WriteData
    \/ StepFails
    \/ WriteFails
    \/ Crash
    \/ Restart

Spec == Init /\ [][Next]_vars

\* the runs in which no call rejects and the process is not terminated
NextNoFailure ==
    \/ Connect
    \/ Navigate
    \/ LoadRemaining
    \/ LoadSearched
    \/ LoopDone
    \/ Pick
    \/ Search
    \/ Screenshot
    \/ AppendLog
    \/ MarkSearched
    \/ WriteData
    \/ Restart

SpecNoFailure == Init /\ [][NextNoFailure]_vars

----------------------------------------------------------------------------
(* The request throttle of go.js:29-57, with callers that do not wait for
   each other: SpecRate *)

\* everything outside go.js
driver == <<SEARCH_PATTERN, EXCLUDE_DIGIT_4_MODE, pc, validNumbers, file,
            remainingNumbers, searchedNumbers, currentNumber, noNumbersAvailable,
            effects, screenshots, logFile, exitCode, loadErr, completed,
            attempts, runs, initialRemaining, attempted, recordBefore,
            persisted, positives, foundSaved, usedNames>>

\* gv.js:18 and 21, the configuration of the source
SourcePattern == <<"a", "b", "c", "3", "3", "3", "3">>

InitRate ==
    /\ SEARCH_PATTERN = SourcePattern
    /\ EXCLUDE_DIGIT_4_MODE = 0
    /\ pc = "config"
    /\ validNumbers = Unset
    /\ Idle
    /\ ControlLoaded

\* requests dispatched or about to be
CallsBegun ==
    Len(dispatched) + Cardinality({c \in CallerIds : callers[c].at = "sleeping"})

\* go.js:54-57 and 37-47: sendRequest is called; ensureRequestDelay reads the
\* clock and either sets a timer or, with nothing to wait for, stamps
\* lastRequestTime, after which request(options) is called
Call(c) ==
    /\ callers[c].at = "idle"
    /\ CallsBegun < MaxCalls
    /\ LET now == clock
           elapsed == now - lastRequestTime
       IN  IF elapsed < MinDelay
           THEN /\ callers' = [callers EXCEPT
                                  ![c] = [at |-> "sleeping",
                                          wake |-> now + (MinDelay - elapsed)]]
                /\ UNCHANGED <<lastRequestTime, dispatched>>
           ELSE /\ lastRequestTime' = clock
                /\ dispatched' = Append(dispatched, clock)
                /\ callers' = [callers EXCEPT ![c] = [at |-> "waiting", wake |-> 0]]
    /\ UNCHANGED <<clock, driver, session, profile>>

\* go.js:43-46 and 56: the timer fires, lastRequestTime is stamped and
\* request(options) is called
TimerFires(c) ==
    /\ callers[c].at = "sleeping"
    /\ clock >= callers[c].wake
    /\ lastRequestTime' = clock
    /\ dispatched' = Append(dispatched, clock)
    /\ callers' = [callers EXCEPT ![c] = [at |-> "waiting", wake |-> 0]]
    /\ UNCHANGED <<clock, driver, session, profile>>

\* go.js:56: the request settles, sendRequest returns to its caller
Respond(c) ==
    /\ callers[c].at = "waiting"
    /\ callers' = [callers EXCEPT ![c] = [at |-> "idle", wake |-> 0]]
    /\ UNCHANGED <<clock, lastRequestTime, dispatched, driver, session, profile>>

\* time passes
Tick ==
    /\ clock < MinDelay + MaxTicks * TickMs
    /\ clock' = clock + TickMs
    /\ UNCHANGED <<lastRequestTime, callers, dispatched, driver, session, profile>>

NextRate ==
    \/ \E c \in CallerIds : Call(c)
    \/ \E c \in CallerIds : TimerFires(c)
    \/ \E c \in CallerIds : Respond(c)
    \/ Tick

SpecRate == InitRate /\ [][NextRate]_vars

----------------------------------------------------------------------------
(* connectToBrowser and getActiveWs, go.js:158-304, against the daemon's
   answers: SpecConnect *)

InitConnect ==
    /\ SEARCH_PATTERN = SourcePattern
    /\ EXCLUDE_DIGIT_4_MODE = 0
    /\ pc = "config"
    /\ validNumbers = Unset
    /\ Idle
    /\ ModuleLoaded
    /\ running \in BOOLEAN

\* go.js:216-221: connectToBrowser(userId), userId a number or an id
ConnectCall ==
    /\ step \in {"idle", "connected", "failed"}
    /\ connects < MaxConnects
    /\ connects' = connects + 1
    /\ wasRunning' = running
    /\ requested' = <<>>
    /\ ws' = NoWs
    /\ reopened' = FALSE
    /\ \E numeric \in BOOLEAN : step' = IF numeric THEN "resolve" ELSE "pids"
    /\ UNCHANGED <<running, driver, throttle, profile>>

\* go.js:221-238: getBrowserIdByIndex finds the id, or the call throws
ResolveId ==
    /\ step = "resolve"
    /\ \E found \in BOOLEAN :
          /\ step' = IF found THEN "pids" ELSE "failed"
          /\ requested' = IF found THEN Append(requested, "/browser/list")
                           ELSE requested \o <<"/browser/list", "/browser/list">>
    /\ UNCHANGED <<running, ws, reopened, wasRunning, connects, driver, throttle,
                   profile>>

\* go.js:243-249 and 274-279: what connectToBrowser does with the value
\* returned by getActiveWs
Returned(value) ==
    IF value # NoWs
    THEN ws' = value /\ step' = "cdp"
    ELSE /\ ws' = ws
         /\ step' = IF reopened THEN "failed" ELSE "open"

\* the answers a request can get: it fails, it is answered without success,
\* or it is answered with or without the address
Answers == {"error", "unsuccessful", "ws", "no_ws"}

\* an address is answered only for a running instance
Truthful(answer) == answer = "ws" => running

\* go.js:160-165, 166-167 and 180-186: /browser/pids/all is answered;
\* data is an object keyed by the running profiles, or an array
PidsAnswered ==
    /\ step = "pids"
    /\ \/ /\ \E answer \in {"error", "unsuccessful"} : Returned(NoWs)
       \/ /\ ws' = ws
          /\ step' = IF running THEN "detail_listed" ELSE "detail"
       \/ \E answer \in {"ws", "no_ws"} :
             /\ Truthful(answer)
             /\ IF answer = "ws"
                THEN Returned(InstanceWs)
                ELSE ws' = ws /\ step' = "detail"
    /\ requested' = Append(requested, "/browser/pids/all")
    /\ UNCHANGED <<running, reopened, wasRunning, connects, driver, throttle,
                   profile>>

\* go.js:169-178 and 204-206: /browser/detail for a profile listed as running
DetailListedAnswered ==
    /\ step = "detail_listed"
    /\ \E answer \in Answers :
          /\ Truthful(answer)
          /\ CASE answer = "error" -> Returned(NoWs)
               [] answer = "ws" -> Returned(InstanceWs)
               [] OTHER -> ws' = ws /\ step' = "detail"
    /\ requested' = Append(requested, "/browser/detail")
    /\ UNCHANGED <<running, reopened, wasRunning, connects, driver, throttle,
                   profile>>

\* go.js:189-203: the last /browser/detail, its error ignored
DetailAnswered ==
    /\ step = "detail"
    /\ \E answer \in Answers :
          /\ Truthful(answer)
          /\ IF answer = "ws" THEN Returned(InstanceWs) ELSE Returned(NoWs)
    /\ requested' = Append(requested, "/browser/detail")
    /\ UNCHANGED <<running, reopened, wasRunning, connects, driver, throttle,
                   profile>>

\* go.js:252-284: /browser/open is requested and answered
OpenAnswered ==
    /\ step = "open"
    /\ requested' = Append(requested, "/browser/open")
    /\ \E answer \in Answers :
          CASE answer \in {"error", "unsuccessful"} ->
                   /\ step' = "failed"
                   /\ UNCHANGED <<running, ws, reopened>>
            [] answer = "ws" ->
                   /\ running' = TRUE
                   /\ ws' = InstanceWs
                   /\ reopened' = TRUE
                   /\ step' = "cdp"
            [] OTHER ->
                   /\ running' = TRUE
                   /\ ws' = NoWs
                   /\ reopened' = TRUE
                   /\ step' = "pids"
    /\ UNCHANGED <<wasRunning, connects, driver, throttle,
                   profile>>

\* go.js:291-304: chromium.connectOverCDP(ws) and the page
CdpConnected ==
    /\ step = "cdp"
    /\ \E ok \in BOOLEAN : step' = IF ok THEN "connected" ELSE "failed"
    /\ UNCHANGED <<running, ws, reopened, requested, wasRunning, connects,
                   driver, throttle, profile>>

NextConnect ==
    \/ ConnectCall
    \/ ResolveId
    \/ PidsAnswered
    \/ DetailListedAnswered
    \/ DetailAnswered
    \/ OpenAnswered
    \/ CdpConnected

SpecConnect == InitConnect /\ [][NextConnect]_vars

----------------------------------------------------------------------------
(* openBrowser and closeBrowser, go.js:312-412, against the daemon's
   answers: SpecProfile.  openBrowser calls getActiveWs as connectToBrowser
   does (go.js:338): the steps of getActiveWs are the actions PidsAnswered,
   DetailListedAnswered and DetailAnswered, which leave step = "cdp" when
   an address was returned and step = "open" when none was *)

\* the names bound in the scope of go.js's functions: its requires, its
\* module-level const and let, and its function declarations; reading any
\* other name throws a ReferenceError
Bindings ==
    {"axios", "chromium", "baseURL", "request", "lastRequestTime",
     "ensureRequestDelay", "sendRequest", "getBrowserList",
     "getBrowserIdByIndex", "getBrowserSeq", "getActiveWs",
     "connectToBrowser", "openBrowser", "closeBrowser", "listBrowsers"}

InitProfile ==
    /\ SEARCH_PATTERN = SourcePattern
    /\ EXCLUDE_DIGIT_4_MODE = 0
    /\ pc = "config"
    /\ validNumbers = Unset
    /\ Idle
    /\ ModuleLoaded
    /\ running \in BOOLEAN

\* a call begins when the one before it has settled
ProfileCallBegins(name) ==
    /\ step = "idle"
    /\ calls < MaxProfileCalls
    /\ calls' = calls + 1
    /\ called' = name
    /\ answered' = "none"
    /\ outcome' = "none"
    /\ messages' = <<>>
    /\ wasRunning' = running
    /\ requested' = <<>>
    /\ ws' = NoWs
    /\ reopened' = FALSE

\* go.js:312-317: openBrowser(userId, options), userId a number or an id
OpenBrowserCall ==
    /\ ProfileCallBegins("openBrowser")
    /\ \E numeric \in BOOLEAN : step' = IF numeric THEN "open_resolve" ELSE "pids"
    /\ UNCHANGED <<running, connects, driver, throttle>>

\* go.js:317-335 and 369-372: getBrowserIdByIndex finds the id, or the
\* call lists the profiles and throws; the catch logs and rethrows
OpenBrowserResolveId ==
    /\ step = "open_resolve"
    /\ \E found \in BOOLEAN :
          IF found
          THEN /\ step' = "pids"
               /\ requested' = Append(requested, "/browser/list")
               /\ UNCHANGED <<outcome, messages>>
          ELSE /\ step' = "idle"
               /\ requested' = requested \o <<"/browser/list", "/browser/list">>
               /\ outcome' = "rejected"
               /\ messages' = Append(messages, "open_failed")
    /\ UNCHANGED <<running, ws, reopened, wasRunning, connects, called,
                   answered, calls, driver, throttle>>

\* go.js:338-342: getActiveWs returned an address, the call returns
AlreadyOpen ==
    /\ called = "openBrowser"
    /\ step = "cdp"
    /\ step' = "idle"
    /\ outcome' = "resolved"
    /\ messages' = Append(messages, "already_open")
    /\ UNCHANGED <<running, ws, reopened, requested, wasRunning, connects,
                   called, answered, calls, driver, throttle>>

\* go.js:344-372: /browser/open is requested and answered; after a
\* successful answer and the wait, openBrowsers.add(profileId) is evaluated
OpenBrowserAnswered ==
    /\ called = "openBrowser"
    /\ step = "open"
    /\ step' = "idle"
    /\ requested' = Append(requested, "/browser/open")
    /\ \E answer \in {"error", "unsuccessful", "success"} :
          /\ answered' = answer
          /\ IF answer = "success"
             THEN /\ running' = TRUE
                  /\ IF "openBrowsers" \in Bindings
                     THEN /\ outcome' = "resolved"
                          /\ messages' = messages \o <<"opening", "launched">>
                     ELSE /\ outcome' = "rejected"
                          /\ messages' = messages \o
                                 <<"opening", "launched", "open_failed">>
             ELSE /\ running' = running
                  /\ outcome' = "rejected"
                  /\ messages' = messages \o <<"opening", "open_failed">>
    /\ UNCHANGED <<ws, reopened, wasRunning, connects, called, calls,
                   driver, throttle>>

\* go.js:380-385: closeBrowser(userId), userId a number or an id
CloseBrowserCall ==
    /\ ProfileCallBegins("closeBrowser")
    /\ \E numeric \in BOOLEAN : step' = IF numeric THEN "close_resolve" ELSE "close"
    /\ UNCHANGED <<running, connects, driver, throttle>>

\* go.js:385-393 and 409-411: getBrowserIdByIndex finds the id, or the
\* call throws; the catch logs and the call returns
CloseBrowserResolveId ==
    /\ step = "close_resolve"
    /\ requested' = Append(requested, "/browser/list")
    /\ \E found \in BOOLEAN :
          IF found
          THEN /\ step' = "close"
               /\ UNCHANGED <<outcome, messages>>
          ELSE /\ step' = "idle"
               /\ outcome' = "resolved"
               /\ messages' = Append(messages, "close_failed")
    /\ UNCHANGED <<running, ws, reopened, wasRunning, connects, called,
                   answered, calls, driver, throttle>>

\* go.js:395-411: /browser/close is requested and answered; on a
\* successful answer openBrowsers.delete(profileId) is evaluated before
\* the browser is reported as closed
CloseBrowserAnswered ==
    /\ step = "close"
    /\ step' = "idle"
    /\ requested' = Append(requested, "/browser/close")
    /\ outcome' = "resolved"
    /\ \E answer \in {"error", "unsuccessful", "success"} :
          /\ answered' = answer
          /\ IF answer = "success"
             THEN /\ running' = FALSE
                  /\ messages' = messages \o
                         (IF "openBrowsers" \in Bindings
                          THEN <<"closing", "closed">>
                          ELSE <<"closing", "close_failed">>)
             ELSE /\ running' = running
                  /\ messages' = messages \o <<"closing", "close_failed">>
    /\ UNCHANGED <<ws, reopened, wasRunning, connects, called, calls,
                   driver, throttle>>

NextProfile ==
    \/ OpenBrowserCall
    \/ OpenBrowserResolveId
    \/ PidsAnswered
    \/ DetailListedAnswered
    \/ DetailAnswered
    \/ AlreadyOpen
    \/ OpenBrowserAnswered
    \/ CloseBrowserCall
    \/ CloseBrowserResolveId
    \/ CloseBrowserAnswered

SpecProfile == InitProfile /\ [][NextProfile]_vars

----------------------------------------------------------------------------
(* Claims about the pattern enumerator, checked under SpecEnum *)

DigitCharSet == Range(DigitChars)

\* every character is a decimal digit or one of the four markers
ValidTemplate(pattern) ==
    \A i \in 1..Len(pattern) : pattern[i] \in DigitCharSet \cup Markers

\* the markers used are the first k letters a, b, ...
PrefixTemplate(pattern) ==
    \A index \in 0..(Cardinality(UsedLetters(pattern)) - 1) :
        FromCharCode(CodeOfA + index) \in UsedLetters(pattern)

\* n (n-1) ... (n-k+1)
RECURSIVE FallingFactorial(_, _)
FallingFactorial(n, k) == IF k = 0 THEN 1 ELSE n * FallingFactorial(n - 1, k - 1)

AvailableDigits(mode) == IF mode = 0 THEN MaxDigit ELSE MaxDigit + 1

CountIsFallingFactorial ==
    /\ Cardinality(Range(validNumbers)) = Len(validNumbers)
    /\ Len(validNumbers) =
          FallingFactorial(AvailableDigits(EXCLUDE_DIGIT_4_MODE),
                           Cardinality(UsedLetters(SEARCH_PATTERN)))

\* C1: for every template and both exclusion settings the list returned by
\* getAllValidNumbers has no duplicate and as many elements as the falling
\* factorial of the available digits (10, or 9 under exclusion) taken k at a
\* time, k the number of distinct markers used, whichever markers they are.
C1_FallingFactorialCount ==
    pc = "enumerated" => CountIsFallingFactorial

\* C1 restricted to the templates whose markers are the first k letters
C1_OnPrefixTemplates ==
    pc = "enumerated" /\ PrefixTemplate(SEARCH_PATTERN) => CountIsFallingFactorial

CandidateShape(pattern, candidate) ==
    /\ Len(candidate) = Len(pattern)
    /\ \A i \in 1..Len(pattern) :
          /\ candidate[i] \in DigitCharSet
          /\ ~IsMarker(pattern[i]) => candidate[i] = pattern[i]
    /\ \A i, j \in 1..Len(pattern) :
          IsMarker(pattern[i]) /\ IsMarker(pattern[j]) =>
              (pattern[i] = pattern[j] <=> candidate[i] = candidate[j])

ShapeOfAll ==
    /\ \A n \in 1..Len(validNumbers) : CandidateShape(SEARCH_PATTERN, validNumbers[n])
    /\ UsedLetters(SEARCH_PATTERN) = {} => validNumbers = <<SEARCH_PATTERN>>

\* C2: every string returned for a template of digits and markers has the
\* template's length, holds only decimal digits, keeps every literal, gives
\* equal digits to the occurrences of one marker and different digits to
\* different markers; a template without marker yields itself alone.
C2_CandidateShape ==
    pc = "enumerated" /\ ValidTemplate(SEARCH_PATTERN) => ShapeOfAll

\* C2 restricted to the templates whose markers are the first k letters
C2_OnPrefixTemplates ==
    pc = "enumerated" /\ ValidTemplate(SEARCH_PATTERN)
        /\ PrefixTemplate(SEARCH_PATTERN) => ShapeOfAll

NoFourAtMarkers(pattern, candidate) ==
    \A i \in 1..Len(pattern) :
        /\ IsMarker(pattern[i]) /\ i <= Len(candidate) =>
              candidate[i] # DigitChars[ExcludedDigit + 1]
        /\ pattern[i] = DigitChars[ExcludedDigit + 1] =>
              i <= Len(candidate) /\ candidate[i] = pattern[i]

\* C3: under exclusion (mode 0) no candidate has the digit 4 at a position
\* where the template has a marker, and every candidate has a 4 at each
\* position where the template has a literal 4.
C3_NoFourAtMarkers ==
    pc = "enumerated" /\ EXCLUDE_DIGIT_4_MODE = 0 /\ ValidTemplate(SEARCH_PATTERN) =>
        \A n \in 1..Len(validNumbers) : NoFourAtMarkers(SEARCH_PATTERN, validNumbers[n])

\* C3 restricted to the templates whose markers are the first k letters
C3_OnPrefixTemplates ==
    pc = "enumerated" /\ EXCLUDE_DIGIT_4_MODE = 0 /\ ValidTemplate(SEARCH_PATTERN)
        /\ PrefixTemplate(SEARCH_PATTERN) =>
        \A n \in 1..Len(validNumbers) : NoFourAtMarkers(SEARCH_PATTERN, validNumbers[n])

----------------------------------------------------------------------------
(* Claims about the process and its progress store, checked under Spec *)

\* C4: a template with a character that is neither digit nor marker is
\* rejected before a candidate list is produced and before the browser is
\* connected, a page is opened, a term is typed or the file is written.
C4_InvalidTemplateRejected ==
    ~ValidTemplate(SEARCH_PATTERN) =>
        /\ validNumbers = Unset
        /\ remainingNumbers = <<>>
        /\ effects = {}

\* the state right after a save of this run resolved (gv.js:214 returned and
\* 217 ran), before the next candidate is picked
SaveCompleted == pc = "loop" /\ currentNumber # Unset

\* loadSearchedNumbers on the file as it is, the read itself succeeding
FreshLoad == loadSearchedNumbers(file, FALSE)

\* C5: after saveSearchedNumbers(S) has completed, loadSearchedNumbers
\* returns a set equal to S: the same elements, each once, nothing caught.
C5_SaveLoadRoundTrip ==
    SaveCompleted =>
        /\ FreshLoad.err = "none"
        /\ Range(FreshLoad.result) = Range(searchedNumbers)
        /\ Len(FreshLoad.result) = Len(searchedNumbers)
        /\ NoDuplicates(FreshLoad.result)

C5_Witness ==
    /\ SaveCompleted
    /\ Len(searchedNumbers) >= 2
    /\ FreshLoad.result = searchedNumbers

\* what the loadSearchedNumbers call inside loadRemainingNumbers returned
LoadedByLoadRemaining ==
    IF loadErr = "none" THEN FreshLoad.result ELSE <<>>

Universe == getAllValidNumbers(SEARCH_PATTERN, EXCLUDE_DIGIT_4_MODE)

LoadedNotSaved == pc \in {"loop", "search", "screenshot", "log", "mark"}

\* C7: when no progress file exists, loadSearchedNumbers returns the empty
\* set, the run goes on without an error, and the remaining list is the
\* whole universe.
C7_FirstRunLoadsEmpty ==
    ~file.exists =>
        /\ pc = "load_searched" => remainingNumbers = Universe /\ loadErr = "ENOENT"
        /\ LoadedNotSaved =>
              /\ searchedNumbers = <<>>
              /\ remainingNumbers = Universe
              /\ loadErr = "ENOENT"
              /\ exitCode = NoExit

C7_Witness ==
    /\ ~file.exists
    /\ pc = "loop"
    /\ searchedNumbers = <<>>
    /\ Len(remainingNumbers) > 1

\* C8: only a missing file is read as the empty record; a read error or a
\* cut-off text is raised and the run never goes on with an empty record
\* standing for it.
C8_OnlyMissingFileIsEmpty ==
    pc \in {"load_searched", "loop"} => loadErr \in {"none", "ENOENT"}

\* C9: at every point during and after a save the file holds a complete
\* record, the one before the save or the new one.
C9_SaveAtomic ==
    file.exists =>
        /\ FreshLoad.err = "none"
        /\ pc = "write" =>
              Range(FreshLoad.result) \in
                  {Range(searchedNumbers), Range(searchedNumbers) \ {currentNumber}}

\* C10: when the process was terminated, the record the next run loads
\* lacks at most one of the candidates whose attempt had been completed.
C10_CrashLosesAtMostOne ==
    pc = "crashed" =>
        Cardinality(completed \ Range(FreshLoad.result)) <= 1

\* an attempt of this run threw and the handler of gv.js:219-223 exited
AttemptFailed == pc = "exited" /\ exitCode = "1" /\ currentNumber # Unset

\* C11: when a step of a candidate's attempt failed, the run has stopped with
\* a nonzero exit code and the persisted record is exactly the record of
\* the moment the attempt began; the failing candidate is not in it.
C11_FailedAttemptKeepsRecord ==
    AttemptFailed =>
        /\ Range(FreshLoad.result) = Range(recordBefore)
        /\ currentNumber \notin Range(FreshLoad.result)

\* C12: at the start of every loop iteration the persisted record equals
\* the searched set in memory, and the attempt just completed has grown the
\* record by its candidate and by nothing else.
C12_RecordGrowsByCandidate ==
    pc = "loop" =>
        /\ Range(FreshLoad.result) = Range(searchedNumbers)
        /\ SaveCompleted =>
              Range(FreshLoad.result) = Range(recordBefore) \cup {currentNumber}

\* the loop of gv.js:168 has ended and the process has exited with status 0
LoopEnded == pc = "exited" /\ exitCode = "0"

\* C13: when no attempt fails the loop terminates with exit status 0: each
\* iteration removes exactly one candidate, the attempted one, from the
\* remaining list, so that the candidates left and the iterations done add
\* up to the length of the initial remaining list; the loop ends, as soon
\* as none is left, with exit status 0, and then every candidate of the
\* initial remaining list has been attempted exactly once and is recorded,
\* in as many iterations as that list had elements.
C13_LoopTerminates ==
    /\ [][(pc = "write" /\ pc' = "loop") =>
              /\ Len(remainingNumbers') = Len(remainingNumbers) - 1
              /\ Range(remainingNumbers') = Range(remainingNumbers) \ {currentNumber}]_vars
    /\ [](pc = "loop" =>
              Len(remainingNumbers) + Len(attempted) = Len(initialRemaining))
    /\ [][(pc = "loop" /\ Len(remainingNumbers) = 0) => LoopEnded']_vars
    /\ [](pc = "exited" =>
              /\ exitCode = "0"
              /\ Len(attempted) = Len(initialRemaining)
              /\ NoDuplicates(attempted)
              /\ Range(attempted) = Range(initialRemaining)
              /\ Range(initialRemaining) \subseteq Range(searchedNumbers)
              /\ Range(initialRemaining) \subseteq Range(FreshLoad.result))

C13_Witness ==
    /\ LoopEnded
    /\ Len(attempted) >= 2
    /\ Len(attempted) = Len(initialRemaining)

\* the remaining list a new run would load from the file as it is
NextRunRemaining ==
    loadRemainingNumbers(SEARCH_PATTERN, EXCLUDE_DIGIT_4_MODE, FreshLoad.result)

\* C14: a run invoked after an earlier one starts from the universe minus
\* the candidates that earlier runs persisted, and so attempts none of
\* them again; after a failed attempt, the list the next run loads
\* contains the candidate of that attempt.
C14_ResumeSkipsRecorded ==
    /\ (runs >= 2 /\ pc = "load_searched") =>
           Range(remainingNumbers) = Range(Universe) \ persisted
    /\ (runs >= 2 /\ pc = "search") => currentNumber \notin persisted
    /\ AttemptFailed => currentNumber \in Range(NextRunRemaining)

\* templates the file name of the configuration is compared with: the
\* drawn ones, and the driver's with a name suffix or extension appended
NameTemplates ==
    Templates \cup DriverPatterns
        \cup {d \o Exclude4Suffix(m) : d \in DriverPatterns, m \in {0, 1}}
        \cup {d \o NameExtension : d \in DriverPatterns}

\* C15: the progress file name is a deterministic, injective function of
\* (template, exclusion flag): every load and save of every run of one
\* configuration opens the same name, load and save build the same name,
\* and no other configuration yields that name.
C15_FileNameInjective ==
    /\ usedNames \subseteq {LoadFileName(SEARCH_PATTERN, EXCLUDE_DIGIT_4_MODE)}
    /\ SaveFileName(SEARCH_PATTERN, EXCLUDE_DIGIT_4_MODE)
           = LoadFileName(SEARCH_PATTERN, EXCLUDE_DIGIT_4_MODE)
    /\ pc = "load_searched" =>
          \A p \in NameTemplates, m \in {0, 1} :
              (\/ LoadFileName(p, m) \in usedNames
               \/ SaveFileName(p, m) \in usedNames)
                  => (p = SEARCH_PATTERN /\ m = EXCLUDE_DIGIT_4_MODE)

C15_Witness ==
    /\ SaveCompleted
    /\ runs = 2
    /\ usedNames = {SaveFileName(SEARCH_PATTERN, EXCLUDE_DIGIT_4_MODE)}

\* the number of lines of the log that name the candidate
LinesOf(candidate) ==
    Cardinality({i \in 1..Len(logFile) : logFile[i] = candidate})

\* the attempt just completed was classified as found
FoundCompleted == SaveCompleted /\ ~noNumbersAvailable

\* C18 as stated: over the runs of one configuration the log holds exactly
\* one line for each candidate for which a result was found, and lines
\* for no other candidate.
C18_OneLinePerFoundCandidate ==
    /\ \A c \in Range(logFile) : LinesOf(c) = 1 /\ c \in Range(positives)
    /\ FoundCompleted => LinesOf(currentNumber) = 1

\* s can be obtained from t by leaving elements out
RECURSIVE IsSubsequence(_, _)
IsSubsequence(s, t) ==
    IF s = <<>> THEN TRUE
    ELSE IF t = <<>> THEN FALSE
    ELSE IF Head(s) = Head(t) THEN IsSubsequence(Tail(s), Tail(t))
    ELSE IsSubsequence(s, Tail(t))

\* C18 amended: the log holds one line for each attempt that was classified
\* as found and went on to its save, in the order of the attempts, and no
\* line for an attempt classified as not found; a candidate attempted again
\* by a later run can have more than one line.
C18_OneLinePerFoundAttempt ==
    /\ IsSubsequence(logFile, positives)
    /\ (pc \in {"mark", "write"} /\ ~noNumbersAvailable) =>
           /\ logFile # <<>>
           /\ logFile[Len(logFile)] = currentNumber
           /\ positives[Len(positives)] = currentNumber

C18_Witness ==
    /\ FoundCompleted
    /\ LinesOf(currentNumber) = 2

\* C19: at the start of every loop iteration the remaining list and the
\* searched set in memory are disjoint, the remaining list has no repeated
\* element, and together they hold exactly the candidate universe; the
\* candidate picked is an element of the remaining list.
C19_LoopInvariant ==
    /\ pc = "loop" =>
          /\ Range(remainingNumbers) \cap Range(searchedNumbers) = {}
          /\ NoDuplicates(remainingNumbers)
          /\ Range(remainingNumbers) \cup Range(searchedNumbers) = Range(Universe)
    /\ pc = "search" => currentNumber \in Range(remainingNumbers)

C16_MinDelayBetweenDispatches ==
    \A i, j \in 1..Len(dispatched) :
        i < j => dispatched[j] - dispatched[i] >= MinDelay

\* C17: when the profile's browser instance is running at the call of
\* connectToBrowser, the call issues no /browser/open request and connects
\* to the address of the running instance, whatever the status requests of
\* getActiveWs are answered.
C17_NoDoubleLaunch ==
    wasRunning =>
        /\ "/browser/open" \notin Range(requested)
        /\ step = "connected" => ws = InstanceWs

\* C21: a call of openBrowser for a profile that is not running, whose
\* /browser/open request the daemon answers with success, settles by
\* resolving; and a call of closeBrowser whose /browser/close request the
\* daemon answers with success reports the browser as closed and does not
\* report a failure.
C21_SuccessIsReportedAsSuccess ==
    (outcome # "none" /\ answered = "success") =>
        /\ (called = "openBrowser" /\ ~wasRunning) => outcome = "resolved"
        /\ called = "closeBrowser" =>
              /\ "closed" \in Range(messages)
              /\ "close_failed" \notin Range(messages)

====
